---- MODULE Spec2Model ----
(***************************************************************************)
(* The connection pool of mcp-runtime: class McpRuntime of src/src/index.ts *)
(* (connect, close, listTools, callTool, createClient).                    *)
(*                                                                         *)
(* The runtime runs on one JavaScript thread.  A step of this model is one *)
(* run of that thread between two I/O suspensions: the synchronous part of *)
(* a call up to its first await on I/O, or the completion of one I/O       *)
(* operation (a handshake, a transport.close(), a protocol request)        *)
(* together with every continuation the completion wakes, which the        *)
(* microtask queue runs before any other I/O completion is delivered.      *)
(*                                                                         *)
(* The session map `clients` is a JavaScript Map: an insertion-ordered     *)
(* list of slots.  connect() sets a key only when it is absent, so every   *)
(* createClient() promise gets a fresh slot at the end of the list; slot i *)
(* holds promise i, and `inMap` is the set of slots not deleted so far.    *)
(*                                                                         *)
(* Connect(c, n) and CloseNamed(c, n) take the name after server.trim();    *)
(* ConnectArg(c, s) is connect with the string as the caller wrote it.     *)
(* close("") is close().                                                   *)
(***************************************************************************)
EXTENDS Integers, Sequences, FiniteSets, TLC

\* Bounds of the model: calls issued and createClient() invocations, for a
\* runtime with two servers and for a runtime with a single server.
MaxOps == 4
MaxAttempts == 2
MaxOpsSingle == 5
MaxAttemptsSingle == 3

\* The concurrent callers of the runtime.
TwoCallers == {"c1", "c2"}
ThreeCallers == {"c1", "c2", "c3"}

\* Server lists given to the constructor: arrays of definitions, of which
\* the model keeps the name, the kind of the command and env, the
\* environment overrides ("none" when the definition has no env).
Echo == [name |-> "echo", kind |-> "stdio", env |-> "none"]
Remote == [name |-> "remote", kind |-> "http", env |-> "none"]
TwoServers == <<Echo, Remote>>
OneServer == <<Echo>>

\* The failures client.connect(transport) can reject with on each transport.
\* "auth" is UnauthorizedError, which only the HTTP transports throw; every
\* other kind is some other Error (the code tells no further kinds apart).
HandshakeErrors(t) ==
    CASE t = "stdio" -> {"other"}
      [] t = "http" -> {"auth", "rejected", "unreachable"}
      [] t = "sse" -> {"auth", "unreachable"}

VARIABLES
    definitions,    \* this.definitions: the configured servers, name -> kind
    definitionKeys, \* the keys of this.definitions in insertion order
    overrides,   \* definition.env of each configured server, name -> env
    promises,    \* the promises createClient() returned, in creation order
    inMap,       \* slots of `clients` still present (indices into promises)
    callers,     \* each caller's current or last call
    ops          \* number of calls issued so far

vars == <<definitions, definitionKeys, overrides, promises, inMap, callers, ops>>

\* What the constructor sets and no method assigns.
constructed == <<definitions, definitionKeys, overrides>>

Configured == DOMAIN definitions
\* Names a caller may pass: the configured ones and one that is not.
Names == Configured \cup {"nope"}

OpsBound == IF Cardinality(Configured) = 1 THEN MaxOpsSingle ELSE MaxOps
AttemptsBound == IF Cardinality(Configured) = 1 THEN MaxAttemptsSingle ELSE MaxAttempts

Callers == DOMAIN callers

\* op, name: the call; pc: where it is suspended; p: the promise it awaits
\* or got its context from; res: what it returned or threw; elapsed: its
\* deadline has passed; outcome: in the finally block of callOnce, what its
\* try block settled with.
Idle == [op |-> "none", name |-> "none", pc |-> "idle", p |-> 0,
         res |-> "none", elapsed |-> FALSE, outcome |-> "none"]

\* new Map(servers.map((entry) => [entry.name, entry])): a name given twice
\* keeps the place of its first entry and the definition of its last.
MapKeys(servers) ==
    SelectSeq([i \in DOMAIN servers |->
                  IF \E j \in 1..(i - 1) : servers[j].name = servers[i].name
                  THEN "" ELSE servers[i].name],
              LAMBDA n : n # "")
MapValues(servers) ==
    [n \in {servers[i].name : i \in DOMAIN servers} |->
        servers[CHOOSE i \in DOMAIN servers :
                    /\ servers[i].name = n
                    /\ \A j \in DOMAIN servers : servers[j].name = n => j <= i].kind]
MapEnv(servers) ==
    [n \in {servers[i].name : i \in DOMAIN servers} |->
        servers[CHOOSE i \in DOMAIN servers :
                    /\ servers[i].name = n
                    /\ \A j \in DOMAIN servers : servers[j].name = n => j <= i].env]

\* new McpRuntime(servers): no session yet.
Runtime(servers, who) ==
    /\ definitions = MapValues(servers)
    /\ definitionKeys = MapKeys(servers)
    /\ overrides = MapEnv(servers)
    /\ promises = <<>>
    /\ inMap = {}
    /\ callers = [c \in who |-> Idle]
    /\ ops = 0

Init == Runtime(TwoServers, TwoCallers)
InitSingle == Runtime(OneServer, TwoCallers)
InitConnect == Runtime(TwoServers, ThreeCallers)

Pending(q) == promises[q].stage \notin {"fulfilled", "rejected"}

\* The transport a fulfilled promise's ClientContext is bound to.
Transport(q) == promises[q].tried[Len(promises[q].tried)]

\* this.clients.get(n): the slot holding key n, 0 for undefined.
Get(n) ==
    IF \E q \in inMap : promises[q].name = n
    THEN CHOOSE q \in inMap : promises[q].name = n
    ELSE 0

\* A delete that empties the map.
MapClear(map, n) == {}

\* this.clients.delete(n)
MapDelete(map, n) == {q \in map : promises[q].name # n}

CanCall(c) == callers[c].pc \in {"idle", "done"} /\ ops < OpsBound

Began(c, op, n) == [Idle EXCEPT !.op = op, !.name = n]

(***************************************************************************)
(* createClient (index.ts 229-277)                                         *)
(***************************************************************************)

\* withEnvOverrides(env, fn) of ./env.js, which createClient hands
\* definition.env and the whole establishment as fn. As the specification
\* describes it: the overrides are written to the process environment, fn
\* runs, and the overrides are reverted when fn has settled; these windows
\* are serialized behind one lock. A definition without env opens no window.
\* InWindow(q): the overrides of establishment q are applied.
InWindow(q) ==
    /\ overrides[promises[q].name] # "none"
    /\ promises[q].stage \notin {"envWait", "fulfilled", "rejected"}

\* The overrides the process environment holds.
Applied == {overrides[promises[q].name] : q \in {r \in DOMAIN promises : InWindow(r)}}

\* The lock is held.
WindowOpen == \E q \in DOMAIN promises : InWindow(q)

\* withEnvOverrides has to wait for the lock before it may call fn.
MustWait(n) == overrides[n] # "none" /\ WindowOpen

\* definition.env, the first argument createClient gives withEnvOverrides.
Own(n) == IF overrides[n] = "none" THEN {} ELSE {overrides[n]}

\* The first transport createClient constructs for definition kind k.
FirstStage(k) == IF k = "stdio" THEN "stdioConnect" ELSE "httpConnect"

\* A createClient that takes every definition for a subprocess definition.
NewClientStdio(n) ==
    [name |-> n, stage |-> "stdioConnect", tried |-> <<"stdio">>,
     errs |-> <<>>, shut |-> <<>>, closes |-> 0, env |-> Applied \cup Own(n)]

\* A createClient that writes definition.env to the process environment
\* itself and starts the transport at once, not through withEnvOverrides.
NewClientUnwrapped(n) ==
    [name |-> n,
     stage |-> FirstStage(definitions[n]),
     tried |-> <<definitions[n]>>,
     errs |-> <<>>,
     shut |-> <<>>,
     closes |-> 0,
     env |-> Applied \cup Own(n)]

\* A createClient that opens the event-stream transport first for a network
\* server.
NewClientEventStream(n) ==
    [name |-> n,
     stage |-> IF definitions[n] = "stdio" THEN "stdioConnect" ELSE "sseConnect",
     tried |-> <<IF definitions[n] = "stdio" THEN "stdio" ELSE "sse">>,
     errs |-> <<>>,
     shut |-> <<>>,
     closes |-> 0,
     env |-> Applied \cup Own(n)]

\* The synchronous part of createClient(definition): withEnvOverrides is
\* called with definition.env and the establishment; once it calls the
\* establishment, a transport of the definition's kind is constructed and
\* client.connect(transport) is awaited.
\* tried: the transports constructed so far, in order; errs: the failure of
\* each handshake that failed so far; shut: the transports createClient
\* itself closed after their handshake failed; closes: how many times the
\* pool invoked transport.close() on the session's transport; env: the
\* overrides the process environment held when the first transport was
\* constructed and started.
NewClient(n) ==
    [name |-> n,
     stage |-> IF MustWait(n) THEN "envWait" ELSE FirstStage(definitions[n]),
     tried |-> IF MustWait(n) THEN <<>> ELSE <<definitions[n]>>,
     errs |-> <<>>,
     shut |-> <<>>,
     closes |-> 0,
     env |-> IF MustWait(n) THEN {} ELSE Applied \cup Own(n)]

\* The catch block without the fallback: every failure is rethrown.
NeverFallBack(e) == "throw"

\* The catch block falling back only when the server rejected the transport.
FallBackOnRejectedOnly(e) == IF e = "rejected" THEN "sse" ELSE "throw"

\* The catch block of the streamable HTTP attempt, after the failed transport
\* was closed: UnauthorizedError is rethrown, any other error falls back to SSE.
AfterPrimaryFailure(e) == IF e = "auth" THEN "throw" ELSE "sse"

\* The error a failed createClient rejects with, which connect rethrows as it
\* is: the error of the handshake that failed last (`throw error` for
\* UnauthorizedError, else the rejection of client.connect(transport) passing
\* through).  cause: its kind; attempted: the strategies it names, none, as
\* the error of a handshake knows nothing of the attempts before it.
Thrown(q) ==
    [cause |-> promises[q].errs[Len(promises[q].errs)],
     attempted |-> <<>>]

(***************************************************************************)
(* connect (index.ts 185-205)                                              *)
(***************************************************************************)

\* connect() without the lookup of an existing entry.
ExistingIgnored(n) == 0

\* const existing = this.clients.get(normalized); if (existing) return existing;
Existing(n) == Get(n)

\* A catch block that rethrows without deleting the entry.
ConnectCatchKeeps(map, n) == map

\* catch (error) { this.clients.delete(normalized); throw error; }
ConnectCatch(map, n) == MapDelete(map, n)

\* What a caller does once `await this.connect(server)` gave it a context:
\* connect returns it; listTools and callTool issue their protocol request.
WithContext(r) ==
    IF r.op = "connect"
    THEN [r EXCEPT !.pc = "done", !.res = "session"]
    ELSE [r EXCEPT !.pc = "request"]

\* The body of connect(n), run by caller c for operation op
\* (connect itself, or listTools / callTool, which start by awaiting connect).
ConnectStep(c, op, n) ==
    LET q == Existing(n)
        r == Began(c, op, n)
    IN  IF q # 0
        THEN /\ callers' = [callers EXCEPT ![c] =
                    IF Pending(q) THEN [r EXCEPT !.pc = "awaitConn", !.p = q]
                    ELSE IF promises[q].stage = "fulfilled"
                         THEN WithContext([r EXCEPT !.p = q])
                         ELSE [r EXCEPT !.pc = "done", !.p = q, !.res = "rejected"]]
             /\ UNCHANGED <<constructed, promises, inMap>>
        ELSE IF n \notin Configured
        THEN /\ callers' = [callers EXCEPT ![c] =
                    [r EXCEPT !.pc = "done", !.res = "UnknownServer"]]
             /\ UNCHANGED <<constructed, promises, inMap>>
        ELSE /\ Len(promises) < AttemptsBound
             /\ promises' = Append(promises, NewClient(n))
             /\ inMap' = inMap \cup {Len(promises) + 1}
             /\ UNCHANGED constructed
             /\ callers' = [callers EXCEPT ![c] =
                    [r EXCEPT !.pc = "awaitConn", !.p = Len(promises) + 1]]

Connect(c, n) ==
    /\ CanCall(c)
    /\ ops' = ops + 1
    /\ ConnectStep(c, "connect", n)

(***************************************************************************)
(* listTools, callTool (index.ts 150-175)                                  *)
(***************************************************************************)

ListTools(c, n) ==
    /\ CanCall(c)
    /\ ops' = ops + 1
    /\ ConnectStep(c, "listTools", n)

\* callTool(server, toolName, {args, timeoutMs}): CallOptions has no
\* timeoutMs and the method sets no timer.
CallTool(c, n) ==
    /\ CanCall(c)
    /\ ops' = ops + 1
    /\ ConnectStep(c, "callTool", n)

\* A call that sends its request again when it failed.
RequestRetried(c, result) ==
    /\ callers[c].pc = "request"
    /\ callers' = [callers EXCEPT ![c] =
            IF result = "callError" /\ callers[c].res = "none"
            THEN [@ EXCEPT !.res = "callError"]
            ELSE [@ EXCEPT !.pc = "done", !.res = result]]
    /\ UNCHANGED <<constructed, promises, inMap, ops>>

\* client.listTools / client.callTool settles: the result, or the failure of
\* the request (a protocol error, the client's own request timeout), goes to
\* the caller.
RequestReturn(c, result) ==
    /\ callers[c].pc = "request"
    /\ callers' = [callers EXCEPT ![c] = [@ EXCEPT !.pc = "done", !.res = result]]
    /\ UNCHANGED <<constructed, promises, inMap, ops>>

\* A timeout handler that tears the session down: it closes the transport
\* and deletes the entry.
DeadlineCloses(c) ==
    /\ callers[c].pc = "request"
    /\ callers[c].op = "callTool"
    /\ ~callers[c].elapsed
    /\ callers' = [callers EXCEPT ![c] = [@ EXCEPT !.elapsed = TRUE]]
    /\ promises' = [promises EXCEPT ![callers[c].p] = [@ EXCEPT !.closes = @ + 1]]
    /\ inMap' = MapDelete(inMap, callers[c].name)
    /\ UNCHANGED <<constructed, ops>>

\* The deadline the caller gave as timeoutMs passes while client.callTool is
\* pending.  callTool holds no timer, so nothing of the runtime runs.
DeadlineElapse(c) ==
    /\ callers[c].pc = "request"
    /\ callers[c].op = "callTool"
    /\ ~callers[c].elapsed
    /\ callers' = [callers EXCEPT ![c] = [@ EXCEPT !.elapsed = TRUE]]
    /\ UNCHANGED <<constructed, promises, inMap, ops>>

(***************************************************************************)
(* Settling of a createClient promise                                      *)
(***************************************************************************)

Waiters(q) ==
    {c \in Callers : callers[c].pc \in {"awaitConn", "closeAwait"} /\ callers[c].p = q}

Closers(q) == {c \in Waiters(q) : callers[c].op \in {"close", "closeAll"}}

\* close: `await context.transport.close()` is reached with the context.
ResumeOk(c) ==
    IF callers[c].op \in {"close", "closeAll"}
    THEN [callers[c] EXCEPT !.pc = "closing"]
    ELSE WithContext(callers[c])

\* An awaiter that is not woken by the rejection.
ResumeErrLost(c) == callers[c]

\* Every awaiter gets the rejection: connect rethrows it (after its catch
\* block for the caller that created the promise), close(name) and close()
\* reject with it.
ResumeErr(c) == [callers[c] EXCEPT !.pc = "done", !.res = "rejected"]

\* Promise q settles, with rec its record at that moment.  All awaiters run:
\* on success each close awaiting it invokes transport.close(); on failure
\* the creator's catch block (and the finally block of a waiting close())
\* deletes the key.
Settle(q, rec, ok) ==
    /\ callers' = [c \in Callers |->
            IF c \in Waiters(q)
            THEN IF ok THEN ResumeOk(c) ELSE ResumeErr(c)
            ELSE callers[c]]
    /\ promises' = [promises EXCEPT ![q] =
            [rec EXCEPT !.stage = IF ok THEN "fulfilled" ELSE "rejected",
                        !.closes = IF ok THEN Cardinality(Closers(q)) ELSE 0]]
    /\ inMap' = IF ok THEN inMap ELSE ConnectCatch(inMap, rec.name)

\* client.connect(transport) resolves.
HandshakeOk(q) ==
    /\ promises[q].stage \in {"stdioConnect", "httpConnect", "sseConnect"}
    /\ Settle(q, promises[q], TRUE)
    /\ UNCHANGED <<constructed, ops>>

\* client.connect(transport) rejects with an error of kind e.
HandshakeFail(q, e) ==
    LET rec == [promises[q] EXCEPT !.errs = Append(@, e)]
    IN  /\ promises[q].stage \in {"stdioConnect", "httpConnect", "sseConnect"}
        /\ IF promises[q].stage = "httpConnect"
           THEN \* await streamableTransport.close().catch(() => {})
                /\ promises' = [promises EXCEPT ![q] =
                        [rec EXCEPT !.stage = "httpClosing", !.shut = Append(@, "http")]]
                /\ UNCHANGED <<inMap, callers>>
           ELSE Settle(q, rec, FALSE)
        /\ UNCHANGED <<constructed, ops>>

\* streamableTransport.close() settled: rethrow, or construct the SSE
\* transport and await client.connect(sseTransport).
PrimaryClosed(q) ==
    /\ promises[q].stage = "httpClosing"
    /\ IF AfterPrimaryFailure(promises[q].errs[1]) = "throw"
       THEN Settle(q, promises[q], FALSE)
       ELSE /\ promises' = [promises EXCEPT ![q] =
                    [@ EXCEPT !.stage = "sseConnect", !.tried = Append(@, "sse")]]
            /\ UNCHANGED <<inMap, callers>>
    /\ UNCHANGED <<constructed, ops>>

(***************************************************************************)
(* close (index.ts 207-227)                                                *)
(***************************************************************************)

\* close() taking the stored promise for the context without awaiting it.
AwaitContextNoWait(q) ==
    IF q = 0 THEN "none"
    ELSE IF promises[q].stage = "rejected" THEN "throw" ELSE "ready"

\* close() that throws for a name without an entry.
AwaitContextStrict(q) ==
    IF q = 0 THEN "throw"
    ELSE IF Pending(q) THEN "wait"
    ELSE IF promises[q].stage = "fulfilled" THEN "ready" ELSE "throw"

\* `const context = await this.clients.get(normalized)`: nothing to await for
\* an absent key, the context of a fulfilled promise, else wait for it.
AwaitContext(q) ==
    IF q = 0 THEN "none"
    ELSE IF Pending(q) THEN "wait"
    ELSE IF promises[q].stage = "fulfilled" THEN "ready" ELSE "throw"

\* Caller record r reaches promise q in close(name) or in close()'s loop.
\* With the context at hand, transport.close() is invoked and awaited.
CloseOn(r, q) ==
    CASE AwaitContext(q) = "none" -> [r EXCEPT !.pc = "done", !.res = "ok"]
      [] AwaitContext(q) = "wait" -> [r EXCEPT !.pc = "closeAwait", !.p = q]
      [] AwaitContext(q) = "ready" -> [r EXCEPT !.pc = "closing", !.p = q]
      [] OTHER -> [r EXCEPT !.pc = "done", !.p = q, !.res = "rejected"]

\* promises after the caller record r was produced by CloseOn.
Invoked(ps, r) ==
    IF r.pc = "closing"
    THEN [ps EXCEPT ![r.p] = [@ EXCEPT !.closes = @ + 1]]
    ELSE ps

\* close(n) with a name.
CloseNamed(c, n) ==
    LET r == CloseOn(Began(c, "close", n), Get(n))
    IN  /\ CanCall(c)
        /\ ops' = ops + 1
        /\ callers' = [callers EXCEPT ![c] = r]
        /\ promises' = Invoked(promises, r)
        /\ UNCHANGED <<constructed, inMap>>

\* The entry close()'s for-of loop visits after slot `after`: the Map
\* iterator moves to the next slot still present, 0 at the end.
NextEntry(map, after) ==
    IF \E q \in map : q > after
    THEN CHOOSE q \in map : q > after /\ \A x \in map : x > after => q <= x
    ELSE 0

\* close() without a name starts its loop.
CloseAll(c) ==
    LET r == CloseOn(Began(c, "closeAll", "none"), NextEntry(inMap, 0))
    IN  /\ CanCall(c)
        /\ ops' = ops + 1
        /\ callers' = [callers EXCEPT ![c] = r]
        /\ promises' = Invoked(promises, r)
        /\ UNCHANGED <<constructed, inMap>>

\* transport.close() settled (its failure is swallowed): the key is deleted;
\* close(name) returns, close() goes on with the next entry.
TransportClosed(c) ==
    LET q == callers[c].p
        map == MapDelete(inMap, promises[q].name)
        r == IF callers[c].op = "close"
             THEN [callers[c] EXCEPT !.pc = "done", !.res = "ok"]
             ELSE CloseOn(callers[c], NextEntry(map, q))
    IN  /\ callers[c].pc = "closing"
        /\ inMap' = map
        /\ callers' = [callers EXCEPT ![c] = r]
        /\ promises' = IF callers[c].op = "close" THEN promises ELSE Invoked(promises, r)
        /\ UNCHANGED <<constructed, ops>>

\* Every step but the one only a network server's establishment takes.
Pool ==
    \/ \E c \in Callers, n \in Names : Connect(c, n)
    \/ \E c \in Callers, n \in Names : ListTools(c, n)
    \/ \E c \in Callers, n \in Names : CallTool(c, n)
    \/ \E c \in Callers, n \in Names : CloseNamed(c, n)
    \/ \E c \in Callers : CloseAll(c)
    \/ \E c \in Callers : TransportClosed(c)
    \/ \E c \in Callers, result \in {"result", "callError"} : RequestReturn(c, result)
    \/ \E c \in Callers : DeadlineElapse(c)
    \/ \E q \in DOMAIN promises : HandshakeOk(q)
    \/ \E q \in DOMAIN promises : \E e \in HandshakeErrors(Transport(q)) : HandshakeFail(q, e)

Next ==
    \/ Pool
    \/ \E q \in DOMAIN promises : PrimaryClosed(q)

Spec == Init /\ [][Next]_vars

\* A runtime with one subprocess server, followed over more calls.
SpecSingle == InitSingle /\ [][Pool]_vars

\* Three callers that issue connect calls only.
NextConnect ==
    \/ \E c \in Callers, n \in Names : Connect(c, n)
    \/ \E q \in DOMAIN promises : HandshakeOk(q)
    \/ \E q \in DOMAIN promises : \E e \in HandshakeErrors(Transport(q)) : HandshakeFail(q, e)
    \/ \E q \in DOMAIN promises : PrimaryClosed(q)

SpecConnect == InitConnect /\ [][NextConnect]_vars

(***************************************************************************)
(* Environment overrides (index.ts 229-243, withEnvOverrides of ./env.js)  *)
(***************************************************************************)

\* Two subprocess servers whose definitions carry different env overrides.
EchoWithEnv == [name |-> "echo", kind |-> "stdio", env |-> "ECHO_KEY"]
FilesWithEnv == [name |-> "files", kind |-> "stdio", env |-> "FILES_KEY"]
ServersWithEnv == <<EchoWithEnv, FilesWithEnv>>

InitEnv == Runtime(ServersWithEnv, TwoCallers)

\* The lock is free: withEnvOverrides applies the overrides of waiting
\* establishment q and calls it; the transport is constructed and
\* client.connect(transport) starts the subprocess.
EnvGranted(q) ==
    /\ promises[q].stage = "envWait"
    /\ ~WindowOpen
    /\ promises' = [promises EXCEPT ![q] =
            [@ EXCEPT !.stage = FirstStage(definitions[promises[q].name]),
                      !.tried = <<definitions[promises[q].name]>>,
                      !.env = Applied \cup Own(promises[q].name)]]
    /\ UNCHANGED <<constructed, inMap, callers, ops>>

\* The establishments whose callback is running.
Established == {q \in DOMAIN promises : promises[q].stage # "envWait"}

NextEnv ==
    \/ \E c \in Callers, n \in Names : Connect(c, n)
    \/ \E c \in Callers, n \in Names : CloseNamed(c, n)
    \/ \E c \in Callers : TransportClosed(c)
    \/ \E q \in DOMAIN promises : EnvGranted(q)
    \/ \E q \in DOMAIN promises : HandshakeOk(q)
    \/ \E q \in Established : \E e \in HandshakeErrors(Transport(q)) : HandshakeFail(q, e)

SpecEnv == InitEnv /\ [][NextEnv]_vars

(***************************************************************************)
(* Server names as the caller writes them (index.ts 142-148, 186)          *)
(***************************************************************************)

\* The strings callers pass as a server name, and those String.prototype.trim
\* can make of them.
ServerArgs == {"echo", " echo ", "remote", "nope", " nope"}
Strings == ServerArgs \cup {"", "echo ", " echo", "nope "}

WhiteSpace == {" "}

\* A string as its runs of white space and of other characters.
Spell(s) ==
    CASE s = "" -> <<>>
      [] s = "echo" -> <<"echo">>
      [] s = " echo" -> <<" ", "echo">>
      [] s = "echo " -> <<"echo", " ">>
      [] s = " echo " -> <<" ", "echo", " ">>
      [] s = "remote" -> <<"remote">>
      [] s = "nope" -> <<"nope">>
      [] s = " nope" -> <<" ", "nope">>
      [] s = "nope " -> <<"nope", " ">>

Unspell(w) == CHOOSE s \in Strings : Spell(s) = w

TrimStart(w) == IF w # <<>> /\ Head(w) \in WhiteSpace THEN Tail(w) ELSE w
TrimEnd(w) ==
    IF w # <<>> /\ w[Len(w)] \in WhiteSpace THEN SubSeq(w, 1, Len(w) - 1) ELSE w

\* A trim that strips leading white space only.
TrimLeft(s) == Unspell(TrimStart(Spell(s)))

\* server.trim()
Trim(s) == Unspell(TrimEnd(TrimStart(Spell(s))))

\* connect(s): `const normalized = server.trim()`, then the body of connect.
ConnectArg(c, s) == Connect(c, Trim(s))

\* getDefinition(s): this.definitions.get(server) with the string as given;
\* synchronous, it returns the definition or throws.
GetDefinition(c, s) ==
    /\ CanCall(c)
    /\ ops' = ops + 1
    /\ callers' = [callers EXCEPT ![c] =
            [Began(c, "getDefinition", s) EXCEPT
                !.pc = "done",
                !.res = IF s \in Configured THEN "definition" ELSE "UnknownServer"]]
    /\ UNCHANGED <<constructed, promises, inMap>>

NextLookup ==
    \/ \E c \in Callers, s \in ServerArgs : ConnectArg(c, s)
    \/ \E c \in Callers, s \in ServerArgs : GetDefinition(c, s)
    \/ \E q \in DOMAIN promises : HandshakeOk(q)
    \/ \E q \in DOMAIN promises : \E e \in HandshakeErrors(Transport(q)) : HandshakeFail(q, e)
    \/ \E q \in DOMAIN promises : PrimaryClosed(q)

SpecLookup == Init /\ [][NextLookup]_vars

(***************************************************************************)
(* listServers (index.ts 134-136)                                          *)
(***************************************************************************)

\* A runtime with a server whose name starts with a capital letter.
Zed == [name |-> "Zed", kind |-> "stdio", env |-> "none"]
ListedServers == {Echo, Remote, Zed}
MaxServers == 3
\* The arrays the constructor is given: any order, names given twice too.
ServerArrays == UNION {[1..k -> ListedServers] : k \in 2..MaxServers}
OneCaller == {"c1"}

\* The UTF-16 code units of the names.
CodeUnits(s) ==
    CASE s = "echo" -> <<101, 99, 104, 111>>
      [] s = "remote" -> <<114, 101, 109, 111, 116, 101>>
      [] s = "Zed" -> <<90, 101, 100>>

Sign(i) == IF i < 0 THEN -1 ELSE IF i > 0 THEN 1 ELSE 0

\* Comparison of two sequences of numbers, element by element; a proper
\* prefix comes first.
RECURSIVE SeqCompare(_, _)
SeqCompare(u, v) ==
    IF u = <<>> \/ v = <<>> THEN Sign(Len(u) - Len(v))
    ELSE IF Head(u) # Head(v) THEN Sign(Head(u) - Head(v))
    ELSE SeqCompare(Tail(u), Tail(v))

\* Collation keys of a code unit of a letter: the letter without its case,
\* and its case, lower case first.
Letter(u) == IF u \in 65..90 THEN u + 32 ELSE u
CaseOf(u) == IF u \in 65..90 THEN 1 ELSE 0
LetterKeys(w) == [i \in DOMAIN w |-> Letter(w[i])]
CaseKeys(w) == [i \in DOMAIN w |-> CaseOf(w[i])]

\* a.localeCompare(b) for names of ASCII letters under the collation of the
\* host's Intl implementation: the letters decide, whatever their case; the
\* case decides between names with the same letters.
LocaleCompare(a, b) ==
    IF SeqCompare(LetterKeys(CodeUnits(a)), LetterKeys(CodeUnits(b))) # 0
    THEN SeqCompare(LetterKeys(CodeUnits(a)), LetterKeys(CodeUnits(b)))
    ELSE SeqCompare(CaseKeys(CodeUnits(a)), CaseKeys(CodeUnits(b)))

\* Array.prototype.sort(compare): a stable sort; compare is the comparator
\* as a function of two elements.
RECURSIVE Insert(_, _, _)
Insert(x, sorted, compare) ==
    IF sorted = <<>> THEN <<x>>
    ELSE IF compare[x, sorted[Len(sorted)]] >= 0 THEN Append(sorted, x)
    ELSE Append(Insert(x, SubSeq(sorted, 1, Len(sorted) - 1), compare),
                sorted[Len(sorted)])

RECURSIVE SortedBy(_, _)
SortedBy(w, compare) ==
    IF w = <<>> THEN <<>>
    ELSE Insert(w[Len(w)], SortedBy(SubSeq(w, 1, Len(w) - 1), compare), compare)

\* listServers without the sort: the keys in insertion order.
KeysAsInserted == definitionKeys

\* [...this.definitions.keys()].sort((a, b) => a.localeCompare(b))
listServers ==
    SortedBy(definitionKeys,
             [a \in Configured, b \in Configured |-> LocaleCompare(a, b)])

\* listServers() is synchronous: it returns within the call.
ListServers(c) ==
    /\ CanCall(c)
    /\ ops' = ops + 1
    /\ callers' = [callers EXCEPT ![c] =
            [Began(c, "listServers", "none") EXCEPT !.pc = "done", !.res = listServers]]
    /\ UNCHANGED <<constructed, promises, inMap>>

InitList == \E servers \in ServerArrays : Runtime(servers, OneCaller)

NextList ==
    \/ \E c \in Callers : ListServers(c)
    \/ \E c \in Callers, n \in Names : Connect(c, n)
    \/ \E q \in DOMAIN promises : HandshakeOk(q)
    \/ \E q \in DOMAIN promises : \E e \in HandshakeErrors(Transport(q)) : HandshakeFail(q, e)
    \/ \E q \in DOMAIN promises : PrimaryClosed(q)

SpecList == InitList /\ [][NextList]_vars

(***************************************************************************)
(* The list listTools returns (index.ts 150-162)                           *)
(***************************************************************************)

\* Tools a server reports; "undefined" stands for a property that is not
\* there.
Ping == [name |-> "ping", description |-> "undefined",
         inputSchema |-> "pingInput", outputSchema |-> "undefined"]
Sum == [name |-> "sum", description |-> "adds numbers",
        inputSchema |-> "sumInput", outputSchema |-> "sumOutput"]
ReportedTools == {Ping, Sum}
MaxTools == 2

\* The replies to tools/list: with a list of tools, or without the property.
ToolsResponses ==
    {[cursor |-> "undefined"]}
        \cup {[tools |-> t] : t \in UNION {[1..k -> ReportedTools] : k \in 0..MaxTools}}

\* ListToolsOptions: includeSchema?: boolean.
ListToolsOptions == [includeSchema : {"true", "false", "undefined"}]

\* The condition of `x ? a : b` for a boolean or a missing property.
Truthy(v) == v \notin {"false", "undefined"}

\* response.tools ?? []
ToolsOrEmpty(response) ==
    IF "tools" \in DOMAIN response THEN response.tools ELSE <<>>

\* A mapping that copies the schemas whatever the options say.
ToolInfoWithSchema(tool, options) == tool

\* The callback of map: one ServerToolInfo for a tool.
ToolInfo(tool, options) ==
    [name |-> tool.name,
     description |-> tool.description,
     inputSchema |-> IF Truthy(options.includeSchema)
                     THEN tool.inputSchema ELSE "undefined",
     outputSchema |-> IF Truthy(options.includeSchema)
                      THEN tool.outputSchema ELSE "undefined"]

\* (response.tools ?? []).map((tool) => ({...}))
ServerToolInfos(response, options) ==
    [i \in DOMAIN ToolsOrEmpty(response) |-> ToolInfo(ToolsOrEmpty(response)[i], options)]

\* client.listTools resolves with `response` in a listTools(server, options)
\* call: the mapped list is returned.  res keeps the reply and the options
\* with it.
ListToolsReturn(c, response, options) ==
    /\ callers[c].pc = "request"
    /\ callers[c].op = "listTools"
    /\ callers' = [callers EXCEPT ![c] =
            [@ EXCEPT !.pc = "done",
                      !.res = [response |-> response, options |-> options,
                               returned |-> ServerToolInfos(response, options)]]]
    /\ UNCHANGED <<constructed, promises, inMap, ops>>

\* listTools calls on a server that answers.
NextTools ==
    \/ \E c \in Callers, n \in Configured : ListTools(c, n)
    \/ \E q \in DOMAIN promises : HandshakeOk(q)
    \/ \E c \in Callers : \E response \in ToolsResponses, options \in ListToolsOptions :
            ListToolsReturn(c, response, options)

SpecTools == InitSingle /\ [][NextTools]_vars

(***************************************************************************)
(* callOnce (index.ts 103-117)                                             *)
(***************************************************************************)

\* createRuntime({configPath}) resolved: a runtime of the loaded definitions
\* that only this callOnce holds.
InitOnce == \E servers \in ServerArrays : Runtime(servers, OneCaller)

\* return await runtime.callTool(params.server, params.toolName, {args}):
\* the one call of the try block.
OnceTry(c, n) == ops = 0 /\ CallTool(c, n)

\* A callOnce that closes the session only after a call that succeeded.
OnceFinallySkipped(c) ==
    LET r0 == [Began(c, "close", callers[c].name) EXCEPT !.outcome = callers[c].res]
        r == IF callers[c].res = "result"
             THEN CloseOn(r0, Get(callers[c].name))
             ELSE [r0 EXCEPT !.pc = "done", !.res = "ok"]
    IN  /\ callers[c].op = "callTool"
        /\ callers[c].pc = "done"
        /\ callers' = [callers EXCEPT ![c] = r]
        /\ promises' = Invoked(promises, r)
        /\ UNCHANGED <<constructed, inMap, ops>>

\* finally { await runtime.close(params.server); }: callTool settled, with
\* a result or an error, and close(server) starts.
OnceFinally(c) ==
    LET r0 == [Began(c, "close", callers[c].name) EXCEPT !.outcome = callers[c].res]
        r == CloseOn(r0, Get(callers[c].name))
    IN  /\ callers[c].op = "callTool"
        /\ callers[c].pc = "done"
        /\ callers' = [callers EXCEPT ![c] = r]
        /\ promises' = Invoked(promises, r)
        /\ UNCHANGED <<constructed, inMap, ops>>

NextOnce ==
    \/ \E c \in Callers, n \in Names : OnceTry(c, n)
    \/ \E c \in Callers : OnceFinally(c)
    \/ \E c \in Callers : TransportClosed(c)
    \/ \E c \in Callers, result \in {"result", "callError"} : RequestReturn(c, result)
    \/ \E q \in DOMAIN promises : HandshakeOk(q)
    \/ \E q \in DOMAIN promises : \E e \in HandshakeErrors(Transport(q)) : HandshakeFail(q, e)
    \/ \E q \in DOMAIN promises : PrimaryClosed(q)

SpecOnce == InitOnce /\ [][NextOnce]_vars

(***************************************************************************)
(* maybeEnableOAuth (runtime-oauth-support.ts 7-25)                        *)
(***************************************************************************)

\* An optional property is a sequence: empty when the property is absent,
\* else holding its value.
Undefined == <<>>
Some(v) == <<v>>

\* x ?? y
NullishOr(x, y) == IF x = Undefined THEN y ELSE x[1]

\* Paths are sequences of segments. os.homedir() and path.join.
HomeDir == <<"home", "user">>
PathJoin(a, b) == a \o b

\* The definitions handed to maybeEnableOAuth.
OAuthDefinitions ==
    [name : {"remote", "docs"},
     command : [kind : {"http", "stdio"}],
     auth : {Undefined, Some("oauth"), Some("basic")},
     source : {Undefined,
               Some([kind |-> "local", path |-> "<adhoc>"]),
               Some([kind |-> "local", path |-> "/config/mcp_servers.json"]),
               Some([kind |-> "import", path |-> "<adhoc>"])},
     tokenCacheDir : {Undefined, Some(<<"cache">>), Some(<<>>)}]

\* definition.source && definition.source.kind === 'local' &&
\* definition.source.path === '<adhoc>'
IsAdHocSource(d) ==
    /\ d.source # Undefined
    /\ d.source[1].kind = "local"
    /\ d.source[1].path = "<adhoc>"

\* maybeEnableOAuth without its first test.
maybeEnableOAuthUnguarded(d) ==
    IF d.command.kind # "http" THEN Undefined
    ELSE IF ~IsAdHocSource(d) THEN Undefined
    ELSE Some([d EXCEPT
            !.auth = Some("oauth"),
            !.tokenCacheDir = Some(NullishOr(d.tokenCacheDir,
                                   PathJoin(HomeDir, <<".mcporter", d.name>>)))])

\* maybeEnableOAuth(definition, logger): Undefined, or the definition with
\* auth and tokenCacheDir replaced.
maybeEnableOAuth(d) ==
    IF d.auth = Some("oauth") THEN Undefined
    ELSE IF d.command.kind # "http" THEN Undefined
    ELSE IF ~IsAdHocSource(d) THEN Undefined
    ELSE Some([d EXCEPT
            !.auth = Some("oauth"),
            !.tokenCacheDir = Some(NullishOr(d.tokenCacheDir,
                                   PathJoin(HomeDir, <<".mcporter", d.name>>)))])

\* A call of maybeEnableOAuth(d); the function is synchronous.
MaybeEnableOAuth(c, d) ==
    /\ CanCall(c)
    /\ ops' = ops + 1
    /\ callers' = [callers EXCEPT ![c] =
            [Began(c, "maybeEnableOAuth", d.name) EXCEPT
                !.pc = "done",
                !.res = [given |-> d, returned |-> maybeEnableOAuth(d)]]]
    /\ UNCHANGED <<constructed, promises, inMap>>

\* The definition a call returned is handed to maybeEnableOAuth in turn.
MaybeEnableOAuthAgain(c) ==
    /\ CanCall(c)
    /\ callers[c].op \in {"maybeEnableOAuth", "maybeEnableOAuthAgain"}
    /\ callers[c].res.returned # Undefined
    /\ ops' = ops + 1
    /\ callers' = [callers EXCEPT ![c] =
            [@ EXCEPT
                !.op = "maybeEnableOAuthAgain",
                !.res = [given |-> callers[c].res.returned[1],
                         returned |-> maybeEnableOAuth(callers[c].res.returned[1])]]]
    /\ UNCHANGED <<constructed, promises, inMap>>

InitOAuth == Runtime(OneServer, OneCaller)

NextOAuth ==
    \/ \E c \in Callers, d \in OAuthDefinitions : MaybeEnableOAuth(c, d)
    \/ \E c \in Callers : MaybeEnableOAuthAgain(c)

SpecOAuth == InitOAuth /\ [][NextOAuth]_vars

(***************************************************************************)
(* loadServerDefinitions, normalizeCommand (config.ts 53-140)              *)
(***************************************************************************)

\* Strings are sequences of characters.
MaxArgs == 2
MaxEntries == 2

\* The strings a configuration file gives as a command: a scheme, or none,
\* followed by the rest.
Schemes ==
    {<<"h", "t", "t", "p", ":", "/", "/">>,
     <<"h", "t", "t", "p", "s", ":", "/", "/">>,
     <<"H", "T", "T", "P", ":", "/", "/">>,
     <<"f", "t", "p", ":", "/", "/">>,
     <<"h", "t", "t", "p", ":", "/">>,
     <<"/", "/">>,
     <<>>}
Rests == {<<>>, <<"h">>, <<"h", "/", "p">>}
CommandStrings == {scheme \o rest : scheme \in Schemes, rest \in Rests}

\* The elements of a command given as an array.
CommandWords == {<<>>, <<"n", "o", "d", "e">>, <<"~", "/", "s">>}
CommandArrays == UNION {[1..k -> CommandWords] : k \in 0..MaxArgs}

\* command: z.union([z.string(), z.array(z.string())])
RawCommands ==
    [type : {"string"}, value : CommandStrings]
        \cup [type : {"array"}, value : CommandArrays]

\* The parsed configuration: an array of entries.
RawServers == [name : {"s"}, command : RawCommands]
RawConfigs == UNION {[1..k -> RawServers] : k \in 0..MaxEntries}

\* s.startsWith(prefix)
StartsWith(s, prefix) ==
    /\ Len(s) >= Len(prefix)
    /\ SubSeq(s, 1, Len(prefix)) = prefix

HttpScheme == <<"h", "t", "t", "p", ":", "/", "/">>
HttpsScheme == <<"h", "t", "t", "p", "s", ":", "/", "/">>

\* The index of the first "/" of s, Len(s) + 1 if it has none.
FirstSlash(s) ==
    IF \E i \in DOMAIN s : s[i] = "/"
    THEN CHOOSE i \in DOMAIN s : s[i] = "/" /\ \A j \in 1..(i - 1) : s[j] # "/"
    ELSE Len(s) + 1

\* new URL(command) for a command that starts with http:// or https://:
\* a TypeError when the host is empty, else the parsed URL.
NewURL(s) ==
    LET protocol == IF StartsWith(s, HttpsScheme) THEN "https:" ELSE "http:"
        after == SubSeq(s, IF protocol = "https:" THEN 9 ELSE 8, Len(s))
        host == SubSeq(after, 1, FirstSlash(after) - 1)
        pathname == IF FirstSlash(after) > Len(after) THEN <<"/">>
                    ELSE SubSeq(after, FirstSlash(after), Len(after))
    IN  IF host = <<>> THEN Undefined
        ELSE Some([protocol |-> protocol, host |-> host, pathname |-> pathname])

\* expandHome(arg) of ./env.js: the leading ~ becomes the home directory.
ExpandHome(arg) == <<"/", "h", "o", "m", "e">> \o Tail(arg)

\* rest.map((arg) => arg.startsWith("~") ? expandHome(arg) : arg)
ResolvedArgs(rest) ==
    [i \in DOMAIN rest |->
        IF StartsWith(rest[i], <<"~">>) THEN ExpandHome(rest[i]) ELSE rest[i]]

\* normalizeCommand without the test of the first element.
normalizeCommandAnyFirst(command, baseDir) ==
    IF command.type = "string"
    THEN IF StartsWith(command.value, HttpScheme) \/ StartsWith(command.value, HttpsScheme)
         THEN IF NewURL(command.value) = Undefined THEN Undefined
              ELSE Some([kind |-> "http", url |-> NewURL(command.value)[1],
                         command |-> <<>>, args |-> <<>>, cwd |-> <<>>])
         ELSE Undefined
    ELSE IF Len(command.value) = 0 THEN Undefined
    ELSE Some([kind |-> "stdio", url |-> Undefined,
               command |-> Head(command.value),
               args |-> ResolvedArgs(Tail(command.value)),
               cwd |-> baseDir])

\* normalizeCommand(command, baseDir): Undefined when it throws, else the
\* CommandSpec (of which a subprocess command has no url and a network
\* command no command, args and cwd).
normalizeCommand(command, baseDir) ==
    IF command.type = "string"
    THEN IF StartsWith(command.value, HttpScheme) \/ StartsWith(command.value, HttpsScheme)
         THEN IF NewURL(command.value) = Undefined THEN Undefined
              ELSE Some([kind |-> "http", url |-> NewURL(command.value)[1],
                         command |-> <<>>, args |-> <<>>, cwd |-> <<>>])
         ELSE Undefined
    ELSE IF Len(command.value) = 0 THEN Undefined
    ELSE IF Head(command.value) = <<>> THEN Undefined
    ELSE Some([kind |-> "stdio", url |-> Undefined,
               command |-> Head(command.value),
               args |-> ResolvedArgs(Tail(command.value)),
               cwd |-> baseDir])

\* path.dirname(configPath)
BaseDir == <<"/", "c", "f", "g">>

\* normalizeServer(entry, baseDir), for an entry without headers.
normalizeServer(entry, baseDir) ==
    IF normalizeCommand(entry.command, baseDir) = Undefined THEN Undefined
    ELSE Some([name |-> entry.name,
               command |-> normalizeCommand(entry.command, baseDir)[1]])

\* parsed.map((entry) => normalizeServer(entry, baseDir)): the first entry
\* that throws makes the load fail.
loadServerDefinitions(parsed) ==
    IF \E i \in DOMAIN parsed : normalizeServer(parsed[i], BaseDir) = Undefined
    THEN Undefined
    ELSE Some([i \in DOMAIN parsed |-> normalizeServer(parsed[i], BaseDir)[1]])

\* A configuration file is loaded.
LoadServerDefinitions(c, parsed) ==
    /\ callers[c].op = "none"
    /\ ops' = ops + 1
    /\ callers' = [callers EXCEPT ![c] =
            [Began(c, "loadServerDefinitions", "none") EXCEPT
                !.pc = "done",
                !.res = [parsed |-> parsed, returned |-> loadServerDefinitions(parsed)]]]
    /\ UNCHANGED <<constructed, promises, inMap>>

InitLoad == Runtime(OneServer, OneCaller)

\* Each caller loads one configuration.
NextLoad ==
    \E c \in Callers :
        /\ callers[c].op = "none"
        /\ \E parsed \in RawConfigs : LoadServerDefinitions(c, parsed)

SpecLoad == InitLoad /\ [][NextLoad]_vars

\* The handshake a pending establishment is awaiting settles, either way.
HandshakeSettles(q) ==
    /\ q \in DOMAIN promises
    /\ \/ HandshakeOk(q)
       \/ \E e \in HandshakeErrors(Transport(q)) : HandshakeFail(q, e)

\* Connect calls of three callers where every handshake awaited settles in
\* the end.  Nothing is assumed of streamableTransport.close().
SpecConnectFair ==
    SpecConnect /\ \A q \in 1..MaxAttempts : WF_vars(HandshakeSettles(q))

\* close() as the last call of the program: no call is issued once a close()
\* without a name was issued; the calls in flight run to their end.
NextLastClose ==
    /\ Next
    /\ ops' # ops => \A c \in Callers : callers[c].op # "closeAll"

SpecLastClose == Init /\ [][NextLastClose]_vars

(***************************************************************************)
(* Properties                                                              *)
(***************************************************************************)

Named(n) == {q \in DOMAIN promises : promises[q].name = n}
Fulfilled(q) == promises[q].stage = "fulfilled"
Rejected(q) == promises[q].stage = "rejected"
InConnect(c) == callers[c].op = "connect"

C2_OneLiveSession ==
    \A n \in Configured :
        Cardinality({q \in Named(n) : Fulfilled(q) /\ promises[q].closes = 0}) <= 1

\* C3: a callTool whose protocol call is still pending when its deadline has
\* passed has been rejected with Timeout: no call waits past its deadline.
C3_TimeoutRejects ==
    \A c \in Callers :
        ~(callers[c].op = "callTool" /\ callers[c].pc = "request" /\ callers[c].elapsed)

\* C4: when the deadline of a callTool on an established session passes,
\* nothing but that is recorded: no close is issued, no transport is closed
\* and the session map is unchanged; and a close(name) issued while the call
\* is past its deadline and the session is in the map gets that session's
\* context and invokes its transport.close().
Expired(c) ==
    callers[c].op = "callTool" /\ callers[c].pc = "request" /\ callers[c].elapsed

\* The step is caller c issuing a call.
IssuedBy(c) == ops' = ops + 1 /\ callers'[c] # callers[c]

PrimaryFailed(q, e) ==
    /\ promises[q].tried[1] = "http"
    /\ promises[q].errs # <<>>
    /\ promises[q].errs[1] = e

\* C5: when the streamable HTTP handshake of a network server fails with a
\* transport-rejected failure, the event-stream transport is tried after it
\* and before the establishment fails; when that handshake succeeds the
\* session is bound to the event-stream transport.
C5_FallbackAfterRejected ==
    \A q \in DOMAIN promises : PrimaryFailed(q, "rejected") =>
        /\ promises[q].stage \in {"httpClosing", "sseConnect", "fulfilled", "rejected"}
        /\ promises[q].stage = "httpClosing" => promises[q].tried = <<"http">>
        /\ promises[q].stage \in {"sseConnect", "fulfilled", "rejected"} =>
                promises[q].tried = <<"http", "sse">>
        /\ Rejected(q) => Len(promises[q].errs) = 2
        /\ Fulfilled(q) => Transport(q) = "sse" /\ Len(promises[q].errs) = 1

\* connect("remote") returned a session bound to the event-stream transport
\* after the primary handshake was rejected.
C5_Witness ==
    \E q \in DOMAIN promises : \E c \in Callers :
        /\ PrimaryFailed(q, "rejected")
        /\ Fulfilled(q) /\ Transport(q) = "sse"
        /\ InConnect(c) /\ callers[c].p = q /\ callers[c].res = "session"

\* C6 as stated: after an unreachable failure of the primary strategy no
\* event-stream transport is opened.
C6_NoFallbackWhenUnreachable ==
    \A q \in DOMAIN promises :
        PrimaryFailed(q, "unreachable") => promises[q].tried = <<"http">>

\* C6 amended: after an unreachable failure of the primary strategy the
\* event-stream transport is tried before the establishment settles, as after
\* every failure but an authentication failure; after an authentication
\* failure of the primary strategy the establishment fails with no
\* event-stream transport opened.
C6_FallbackUnlessAuth ==
    \A q \in DOMAIN promises :
        /\ PrimaryFailed(q, "unreachable") /\ promises[q].stage # "httpClosing" =>
                /\ promises[q].tried = <<"http", "sse">>
                /\ promises[q].stage \in {"sseConnect", "fulfilled", "rejected"}
        /\ PrimaryFailed(q, "auth") =>
                /\ promises[q].tried = <<"http">>
                /\ promises[q].stage \in {"httpClosing", "rejected"}

\* An establishment whose primary handshake was unreachable failed after the
\* event-stream transport was tried too.
C6_Witness ==
    \E q \in DOMAIN promises :
        /\ PrimaryFailed(q, "unreachable")
        /\ Rejected(q)
        /\ promises[q].tried = <<"http", "sse">>

\* C7: an establishment that failed on an authentication failure has retried
\* the strategy that failed: it met two authentication failures on the same
\* strategy, tried twice in a row.
C7_AuthRetriedOnce ==
    \A q \in DOMAIN promises :
        (Rejected(q) /\ promises[q].errs[Len(promises[q].errs)] = "auth") =>
            \E i \in 1..(Len(promises[q].tried) - 1) :
                /\ promises[q].tried[i] = promises[q].tried[i + 1]
                /\ promises[q].errs[i] = "auth"
                /\ promises[q].errs[i + 1] = "auth"

\* C8: a failed establishment is not in the session map, every call that
\* awaited it has thrown its failure, and a connect(x) issued when a failed
\* establishment of x left no entry starts a new createClient().
C8_FailureEvicted ==
    [][/\ \A q \in DOMAIN promises' : promises'[q].stage = "rejected" =>
            /\ q \notin inMap'
            /\ \A c \in Callers : callers'[c].p = q =>
                    callers'[c].pc = "done" /\ callers'[c].res = "rejected"
       /\ \A c \in Callers : \A q \in DOMAIN promises :
            (/\ Rejected(q)
             /\ Get(promises[q].name) = 0
             /\ IssuedBy(c)
             /\ callers'[c].op = "connect"
             /\ callers'[c].name = promises[q].name) =>
                /\ Len(promises') = Len(promises) + 1
                /\ callers'[c].p = Len(promises')
                /\ callers'[c].pc = "awaitConn"
                /\ promises'[Len(promises')].name = promises[q].name
                /\ promises'[Len(promises')].stage \notin {"fulfilled", "rejected"}
                /\ Len(promises') \in inMap']_vars

\* A caller got the failure of the first establishment of a server and a
\* connect issued after it by another caller started the second one.
C8_Witness ==
    \E n \in Configured :
        /\ 1 \in Named(n) /\ 2 \in Named(n)
        /\ Rejected(1) /\ Pending(2)
        /\ \E c \in Callers :
                /\ callers[c].p = 1 /\ callers[c].res = "rejected"
                /\ \E d \in Callers \ {c} : InConnect(d) /\ callers[d].p = 2

\* C9: a close(x) that waits for a pending establishment has closed nothing
\* and deleted nothing; it goes on only when that establishment settled: it
\* then invokes transport.close() on the session the establishment produced
\* and, when that close settled, leaves no entry for x; entries are deleted
\* only by a close that holds a context or by a failed establishment.
C9_CloseAwaitsPending ==
    [][/\ \A c \in Callers : callers'[c].op = "close" =>
            /\ callers'[c].pc = "closeAwait" =>
                    /\ promises'[callers'[c].p].stage \notin {"fulfilled", "rejected"}
                    /\ promises'[callers'[c].p].closes = 0
                    /\ promises'[callers'[c].p].name = callers'[c].name
            /\ callers'[c].pc = "closing" =>
                    /\ promises'[callers'[c].p].stage = "fulfilled"
                    /\ promises'[callers'[c].p].closes >= 1
       /\ \A c \in Callers :
            (callers[c].op = "close" /\ callers[c].pc = "closeAwait"
                /\ callers'[c] # callers[c]) =>
                    /\ callers'[c].p = callers[c].p
                    /\ \/ /\ promises'[callers[c].p].stage = "fulfilled"
                          /\ callers'[c].pc = "closing"
                          /\ promises'[callers[c].p].closes >= 1
                       \/ /\ promises'[callers[c].p].stage = "rejected"
                          /\ callers'[c].pc = "done"
                          /\ callers'[c].res = "rejected"
       /\ \A c \in Callers :
            (callers[c].op = "close" /\ callers[c].pc = "closing"
                /\ callers'[c].pc = "done") =>
                    /\ callers'[c].res = "ok"
                    /\ callers[c].p \notin inMap'
                    /\ \A q \in inMap' : promises'[q].name # callers[c].name
                    /\ promises' = promises
       /\ (\E q \in inMap : q \notin inMap') =>
            \/ \E c \in Callers : callers[c].pc = "closing" /\ callers'[c] # callers[c]
            \/ \E q \in DOMAIN promises : Pending(q) /\ promises'[q].stage = "rejected"]_vars

\* A close(x) is waiting for the pending establishment of x, whose entry is
\* in the map and whose transport was not closed.
C9_Witness ==
    \E c \in Callers :
        /\ callers[c].op = "close" /\ callers[c].pc = "closeAwait"
        /\ Pending(callers[c].p)
        /\ callers[c].p \in inMap
        /\ \E d \in Callers : InConnect(d) /\ callers[d].pc = "awaitConn"
                /\ callers[d].p = callers[c].p

C11_CloseAllEmpties ==
    \A c \in Callers : (callers[c].op = "closeAll" /\ callers[c].pc = "done") =>
        /\ inMap = {}
        /\ \A q \in DOMAIN promises : Fulfilled(q) => promises[q].closes >= 1

\* C12 as stated: for every string s that is not a configured name,
\* getDefinition(s) and connect(s) throw the unknown-server error, and
\* connect(s) creates no promise and leaves the session map as it is.
C12_UnknownName ==
    [][\A c \in Callers : \A s \in ServerArgs \ Configured :
        /\ GetDefinition(c, s) => callers'[c].res = "UnknownServer"
        /\ ConnectArg(c, s) =>
                /\ callers'[c].res = "UnknownServer"
                /\ promises' = promises
                /\ inMap' = inMap]_vars

\* The configured name that s spells between white space, if any.
IsWord(t) == t \notin WhiteSpace
NameIn(s) == {n \in Configured : SelectSeq(Spell(s), IsWord) = <<n>>}

\* C12 amended: getDefinition(s) throws the unknown-server error for every
\* string s that is not a configured name; connect(s) trims s first: it
\* throws the unknown-server error, creates no promise and leaves the session
\* map as it is when s without the white space around it is not a configured
\* name, and it connects to the server of that name when it is configured,
\* also when s itself is not.
C12_UnknownTrimmedName ==
    [][\A c \in Callers : \A s \in ServerArgs :
        /\ (s \notin Configured /\ GetDefinition(c, s)) =>
                /\ callers'[c].pc = "done"
                /\ callers'[c].res = "UnknownServer"
                /\ promises' = promises
                /\ inMap' = inMap
        /\ (NameIn(s) = {} /\ ConnectArg(c, s)) =>
                /\ callers'[c].pc = "done"
                /\ callers'[c].res = "UnknownServer"
                /\ promises' = promises
                /\ inMap' = inMap
        /\ \A n \in NameIn(s) : ConnectArg(c, s) =>
                /\ callers'[c].res # "UnknownServer"
                /\ callers'[c].name = n
                /\ callers'[c].p # 0
                /\ promises'[callers'[c].p].name = n]_vars

\* connect and getDefinition of a name that is not configured both threw
\* the unknown-server error, and no establishment was started.
C12_Witness ==
    \E c, d \in Callers :
        /\ InConnect(c) /\ callers[c].name \notin Configured
        /\ callers[c].res = "UnknownServer"
        /\ callers[d].op = "getDefinition" /\ callers[d].name \notin Configured
        /\ callers[d].res = "UnknownServer"
        /\ promises = <<>>

\* Caller d's last call was a connect that returned session q, and the last
\* call of every other caller got a promise created before q (a promise for
\* x is created only when x has no entry): no call, so no close, was issued
\* since q was created.
ConnectedSince(d, q) ==
    /\ InConnect(d) /\ callers[d].res = "session" /\ callers[d].p = q
    /\ \A e \in Callers \ {d} :
            callers[e].op = "none" \/ callers[e].p \in 1..(q - 1)

\* C13: once connect(x) has returned session q, a connect(x), listTools(x) or
\* callTool(x) issued before any close was issued uses q and creates no
\* promise.
C13_SessionReused ==
    [][\A d, c \in Callers : \A q \in DOMAIN promises :
        (/\ ConnectedSince(d, q)
         /\ IssuedBy(c)
         /\ callers'[c].op \in {"connect", "listTools", "callTool"}
         /\ callers'[c].name = promises[q].name) =>
            /\ callers'[c].p = q
            /\ promises' = promises]_vars

\* Every configured name is once in the sequence w, and nothing else is.
EachOnce(w) ==
    /\ {w[i] : i \in DOMAIN w} = Configured
    /\ Len(w) = Cardinality(Configured)

Ascending(w, Compare(_, _)) ==
    \A i \in 1..(Len(w) - 1) : Compare(w[i], w[i + 1]) < 0

\* The order of strings by their code units.
CodeUnitCompare(a, b) == SeqCompare(CodeUnits(a), CodeUnits(b))

Listed(c) == callers[c].op = "listServers" /\ callers[c].pc = "done"

\* C14 as stated: what listServers returned holds every configured name once
\* in lexicographic order, the order of the code units of the names.
C14_Lexicographic ==
    \A c \in Callers : Listed(c) =>
        EachOnce(callers[c].res) /\ Ascending(callers[c].res, CodeUnitCompare)

\* C14 amended: listServers returns every configured name once, in the
\* ascending order of localeCompare (letters first, whatever their case: echo,
\* remote, Zed), whatever the order and the repetitions of the array given to
\* the constructor; it creates no promise, leaves the session map and the
\* definitions as they are, and waits for nothing.
C14_LocaleOrder ==
    [][\A c \in Callers :
        (/\ ops' = ops + 1
         /\ callers'[c].op = "listServers"
         /\ \A d \in Callers \ {c} : callers'[d].op = callers[d].op) =>
            /\ callers'[c].pc = "done"
            /\ EachOnce(callers'[c].res)
            /\ Ascending(callers'[c].res, LocaleCompare)
            /\ promises' = promises
            /\ inMap' = inMap
            /\ definitions' = definitions
            /\ definitionKeys' = definitionKeys]_vars

\* listServers returned echo, remote, Zed for a runtime constructed with Zed
\* first, while a session of echo is in the map.
C14_Witness ==
    \E c \in Callers :
        /\ Listed(c)
        /\ callers[c].res = <<"echo", "remote", "Zed">>
        /\ definitionKeys = <<"Zed", "remote", "echo">>
        /\ \E q \in inMap : Fulfilled(q)

\* C15: the list a listTools call returned has one entry for each tool of the
\* server's reply, in the reply's order and with the tool's name; inputSchema
\* and outputSchema of every entry are absent unless includeSchema is true,
\* and then they are the tool's.
C15_SchemaOnRequest ==
    \A c \in Callers : (callers[c].op = "listTools" /\ callers[c].pc = "done") =>
        LET given == callers[c].res.response
            tools == IF "tools" \in DOMAIN given THEN given.tools ELSE <<>>
            wanted == callers[c].res.options.includeSchema = "true"
            returned == callers[c].res.returned
        IN  /\ Len(returned) = Len(tools)
            /\ \A i \in 1..Len(tools) :
                    /\ returned[i].name = tools[i].name
                    /\ returned[i].description = tools[i].description
                    /\ ~wanted => /\ returned[i].inputSchema = "undefined"
                                  /\ returned[i].outputSchema = "undefined"
                    /\ wanted => /\ returned[i].inputSchema = tools[i].inputSchema
                                 /\ returned[i].outputSchema = tools[i].outputSchema

\* One call returned the two tools of a reply without their schemas, another
\* call with includeSchema returned them with the schemas.
C15_Witness ==
    \E c, d \in Callers :
        /\ callers[c].op = "listTools" /\ callers[c].pc = "done"
        /\ callers[d].op = "listTools" /\ callers[d].pc = "done"
        /\ callers[c].res.response = [tools |-> <<Sum, Ping>>]
        /\ callers[d].res.response = [tools |-> <<Sum, Ping>>]
        /\ callers[c].res.options.includeSchema = "undefined"
        /\ callers[d].res.options.includeSchema = "true"
        /\ callers[c].res.returned[1].inputSchema = "undefined"
        /\ callers[d].res.returned[1].outputSchema = "sumOutput"

\* C16: whatever close(name) and close() calls overlap, the pool invokes
\* transport.close() at most once on each established session.
C16_ClosedOnce ==
    \A q \in DOMAIN promises : promises[q].closes <= 1

\* C17: a connect(x), listTools(x) or callTool(x) that finds an entry for x
\* gets a session on which the pool has not invoked transport.close(): the
\* context a call gets on being issued is that of a session with no close
\* begun.
C17_NoClosingSession ==
    [][\A c \in Callers :
        (/\ IssuedBy(c)
         /\ callers'[c].op \in {"connect", "listTools", "callTool"}
         /\ callers'[c].p # 0
         /\ callers'[c].pc \in {"done", "request"}
         /\ callers'[c].res \in {"session", "none"}) =>
            promises[callers'[c].p].closes = 0]_vars

\* C18: when an establishment has failed, createClient has closed every
\* transport it opened for it: the subprocess transport, the streamable HTTP
\* transport and the event-stream transport alike.
C18_FailedTransportClosed ==
    \A q \in DOMAIN promises : Rejected(q) =>
        \A i \in DOMAIN promises[q].tried :
            \E j \in DOMAIN promises[q].shut : promises[q].shut[j] = promises[q].tried[i]

InRequest(c) == callers[c].op \in {"listTools", "callTool"} /\ callers[c].pc = "request"

\* C20: a listTools or callTool call whose request is pending does nothing
\* more but take the reply (its deadline may pass meanwhile): the result or
\* the failure of that one request ends the call, no request is sent again,
\* and the step creates no promise and leaves the session map as it is; an
\* entry leaves the map only in a step of a close that holds its context or
\* when an establishment fails.
C20_NoRetry ==
    [][/\ \A c \in Callers : (InRequest(c) /\ callers'[c] # callers[c]) =>
            /\ promises' = promises
            /\ inMap' = inMap
            /\ ops' = ops
            /\ \/ callers'[c] = [callers[c] EXCEPT !.elapsed = TRUE]
               \/ /\ callers'[c].res \in {"result", "callError"}
                  /\ callers'[c] = [callers[c] EXCEPT !.pc = "done", !.res = callers'[c].res]
       /\ (\E q \in inMap : q \notin inMap') =>
            \/ \E c \in Callers : callers[c].pc = "closing" /\ callers'[c] # callers[c]
            \/ \E q \in DOMAIN promises : Pending(q) /\ promises'[q].stage = "rejected"]_vars

\* A callTool failed; its session is still in the map, not closed, and no
\* other establishment of the server was started.
C20_Witness ==
    \E c \in Callers :
        /\ callers[c].op = "callTool" /\ callers[c].pc = "done"
        /\ callers[c].res = "callError"
        /\ callers[c].p \in inMap
        /\ promises[callers[c].p].closes = 0
        /\ Named(callers[c].name) = {callers[c].p}

\* C21: an establishment of a subprocess server opens the subprocess
\* transport and no other; an establishment of a network server opens the
\* streamable HTTP transport first and at most the event-stream transport
\* after it, and the event-stream transport only once the streamable HTTP
\* handshake has failed and that transport was closed.
C21_StrategyOrder ==
    \A q \in DOMAIN promises :
        /\ definitions[promises[q].name] = "stdio" => promises[q].tried = <<"stdio">>
        /\ definitions[promises[q].name] = "http" =>
                /\ promises[q].tried \in {<<"http">>, <<"http", "sse">>}
                /\ promises[q].tried = <<"http", "sse">> =>
                        /\ Len(promises[q].errs) >= 1
                        /\ promises[q].shut = <<"http">>
                        /\ promises[q].stage \in {"sseConnect", "fulfilled", "rejected"}
                /\ promises[q].stage = "httpConnect" => promises[q].errs = <<>>

\* One establishment of the subprocess server and one of the network server
\* that went on to the event-stream transport have both settled.
C21_Witness ==
    \E q, r \in DOMAIN promises :
        /\ promises[q].tried = <<"stdio">> /\ ~Pending(q)
        /\ promises[r].tried = <<"http", "sse">> /\ ~Pending(r)

\* C22: when the streamable HTTP handshake and the event-stream handshake of
\* an establishment have both failed, the error connect throws names the two
\* strategies attempted and carries the cause of the event-stream failure.
C22_FailureNamesStrategies ==
    \A q \in DOMAIN promises :
        (Rejected(q) /\ promises[q].tried = <<"http", "sse">>) =>
            /\ Thrown(q).attempted = promises[q].tried
            /\ Thrown(q).cause = promises[q].errs[2]

\* C23: no close(x) and no close() ends by throwing the failure of an
\* establishment: a close that waited for an establishment that failed has
\* returned without error.
C23_CloseNeverRejects ==
    \A c \in Callers :
        (callers[c].op \in {"close", "closeAll"} /\ callers[c].pc = "done") =>
            callers[c].res = "ok"

Waiting(c) == callers[c].pc = "awaitConn"
PendingEntry(q) == q \in DOMAIN promises /\ q \in inMap /\ Pending(q)
ClosingPrimary(q) == q \in DOMAIN promises /\ promises[q].stage = "httpClosing"

\* No connect waits forever for an establishment, its own or one it joined
\* (a connect that stops waiting has returned or thrown), and no pending
\* entry stays in the map forever.
ConnectsSettle ==
    /\ \A c \in ThreeCallers : []<>(~Waiting(c))
    /\ \A q \in 1..MaxAttempts : []<>(~PendingEntry(q))
    /\ [](\A c \in ThreeCallers : ~InConnect(c) \/ Waiting(c) \/ callers[c].pc = "done")

C25_EntriesOfDefinitions ==
    \A q \in inMap :
        /\ promises[q].name \in Configured
        /\ Get(promises[q].name) = q
        /\ promises[q].tried[1] = definitions[promises[q].name]
        /\ Fulfilled(q) =>
                Transport(q) \in
                    IF definitions[promises[q].name] = "stdio"
                    THEN {"stdio"} ELSE {"http", "sse"}

\* The map holds the established sessions of both servers, after a
\* connect("nope") that added nothing.
C25_Witness ==
    /\ \E q, r \in inMap :
            /\ promises[q].name = "echo" /\ Fulfilled(q)
            /\ promises[r].name = "remote" /\ Fulfilled(r) /\ Transport(r) = "sse"
    /\ \E c \in Callers : InConnect(c) /\ callers[c].res = "UnknownServer"

C27_UpgradesOnce ==
    \A c \in Callers :
        (/\ callers[c].op \in {"maybeEnableOAuth", "maybeEnableOAuthAgain"}
         /\ callers[c].res.returned # Undefined) =>
            LET d == callers[c].res.given
                u == callers[c].res.returned[1]
            IN  /\ maybeEnableOAuth(u) = Undefined
                /\ [u EXCEPT !.auth = d.auth, !.tokenCacheDir = d.tokenCacheDir] = d
                /\ u.auth = Some("oauth")
                /\ u.tokenCacheDir # Undefined
                /\ d.tokenCacheDir # Undefined => u.tokenCacheDir = d.tokenCacheDir

\* A definition that maybeEnableOAuth returned, with the default cache
\* directory, was handed to it again and nothing came back.
C27_Witness ==
    \E c \in Callers :
        /\ callers[c].op = "maybeEnableOAuthAgain"
        /\ callers[c].res.given.auth = Some("oauth")
        /\ callers[c].res.given.tokenCacheDir = Some(<<"home", "user", ".mcporter", "docs">>)
        /\ callers[c].res.returned = Undefined

\* callOnce has settled: its finally block ran to its end.
OnceSettled(c) ==
    /\ callers[c].op = "close"
    /\ callers[c].pc = "done"
    /\ callers[c].outcome # "none"

\* C28: when callOnce has settled, whatever its call settled with, the
\* runtime it created has no entry for the requested server, and every
\* session that was established for it had its transport closed.
C28_OnceLeavesNoSession ==
    \A c \in Callers :
        OnceSettled(c) =>
            /\ Get(callers[c].name) = 0
            /\ \A q \in DOMAIN promises :
                    (promises[q].name = callers[c].name /\ promises[q].stage = "fulfilled")
                        => promises[q].closes >= 1
            /\ \A q \in DOMAIN promises : ~Pending(q)

\* callOnce settled after a tool call that failed on an established
\* session, which was closed and removed.
C28_Witness ==
    \E c \in Callers :
        /\ OnceSettled(c)
        /\ callers[c].outcome = "callError"
        /\ callers[c].p \in DOMAIN promises
        /\ promises[callers[c].p].stage = "fulfilled"
        /\ promises[callers[c].p].closes = 1
        /\ inMap = {}

\* A command that must make loading fail: an empty array, an array with an
\* empty first element, or a string that starts with neither http:// nor
\* https://.
Refused(command) ==
    \/ command.type = "array" /\ command.value = <<>>
    \/ command.type = "array" /\ command.value # <<>> /\ command.value[1] = <<>>
    \/ /\ command.type = "string"
       /\ ~StartsWith(command.value, <<"h", "t", "t", "p", ":", "/", "/">>)
       /\ ~StartsWith(command.value, <<"h", "t", "t", "p", "s", ":", "/", "/">>)

\* C29: every definition loadServerDefinitions returns has a subprocess
\* command with a non-empty executable or a network command with an
\* absolute http(s) URL, and a configuration with an entry whose command is
\* an empty array, an array with an empty first element, or a string not
\* starting with http:// or https:// is not loaded at all.
C29_CommandsValid ==
    \A c \in Callers :
        callers[c].op = "loadServerDefinitions" =>
            LET parsed == callers[c].res.parsed
                returned == callers[c].res.returned
            IN  /\ returned # Undefined =>
                    /\ Len(returned[1]) = Len(parsed)
                    /\ \A i \in DOMAIN returned[1] :
                        LET command == returned[1][i].command
                        IN  \/ /\ command.kind = "stdio"
                               /\ command.command # <<>>
                               /\ command.command = parsed[i].command.value[1]
                            \/ /\ command.kind = "http"
                               /\ command.url # Undefined
                               /\ command.url.protocol \in {"http:", "https:"}
                               /\ command.url.host # <<>>
                /\ (\E i \in DOMAIN parsed : Refused(parsed[i].command))
                        => returned = Undefined

\* A configuration with a subprocess entry and a network entry was loaded.
C29_Witness ==
    \E c \in Callers :
        /\ callers[c].op = "loadServerDefinitions"
        /\ callers[c].res.returned # Undefined
        /\ Len(callers[c].res.returned[1]) = 2
        /\ callers[c].res.returned[1][1].command.kind = "stdio"
        /\ callers[c].res.returned[1][2].command.kind = "http"
        /\ callers[c].res.returned[1][2].command.url.protocol = "https:"

====
